---- MODULE Spec2Model ----
(***************************************************************************)
(* Model of src/scraper.py: the module-level batch that turns archived ad  *)
(* documents into Ad records, reconciling the embedded data-props payload  *)
(* with the legacy markup extractors, followed by the post-hoc "Touring"   *)
(* correction and the parquet snapshot.                                    *)
(*                                                                         *)
(* Python values are tagged records [t, v]; a str is a sequence of         *)
(* character tokens, a list a sequence of values, a dict a sequence of     *)
(* <<key, value>> pairs (keys unique).  An exception that leaves a         *)
(* function is the value Raise.                                            *)
(***************************************************************************)
EXTENDS Integers, Sequences, FiniteSets, TLC

\* ------------------------------------------------------------------ bounds
MaxFiles == 2
MaxLabels == 2

\* ------------------------------------------------------- Python values
None == [t |-> "none", v |-> <<>>]
Raise == [t |-> "raise", v |-> <<>>]
I(n) == [t |-> "int", v |-> n]
S(chars) == [t |-> "str", v |-> chars]
B(b) == [t |-> "bool", v |-> b]
L(elems) == [t |-> "list", v |-> elems]
D(pairs) == [t |-> "dict", v |-> pairs]

EmptyDict == D(<<>>)

\* Python truth value of x (bool(x)).
Truthy(x) ==
    CASE x.t = "none" -> FALSE
      [] x.t = "int"  -> x.v # 0
      [] x.t = "bool" -> x.v
      [] OTHER        -> x.v # <<>>

\* a or b, with b evaluated only when a is falsy; an exception in a escapes.
\* Variant: a strict null test, `a if a is not None else b`.
PyOr_IsNotNone(a, b) ==
    IF a.t = "raise" THEN Raise ELSE IF a.t # "none" THEN a ELSE b

PyOr(a, b) ==
    IF a.t = "raise" THEN Raise ELSE IF Truthy(a) THEN a ELSE b

\* d.get(k, default): AttributeError when d is not a dict.
PyGetD(d, k, default) ==
    IF d.t # "dict" THEN Raise
    ELSE LET hits == {i \in 1..Len(d.v) : d.v[i][1] = k}
         IN  IF hits = {} THEN default ELSE d.v[CHOOSE i \in hits : TRUE][2]

PyGet(d, k) == PyGetD(d, k, None)

\* d[k]: KeyError / TypeError when the key is missing or d is not a dict.
PyIndex(d, k) ==
    IF d.t # "dict" THEN Raise
    ELSE LET hits == {i \in 1..Len(d.v) : d.v[i][1] = k}
         IN  IF hits = {} THEN Raise ELSE d.v[CHOOSE i \in hits : TRUE][2]

\* ------------------------------------------------------------- strings
Digits == <<"0", "1", "2", "3", "4", "5", "6", "7", "8", "9">>
NBSP == "\\xa0"
Whitespace == {" ", NBSP}

IsDigit(c) == \E i \in 1..10 : Digits[i] = c
DigitVal(c) == (CHOOSE i \in 1..10 : Digits[i] = c) - 1

\* needle in hay (substring test on character sequences)
Contains(hay, needle) ==
    \E i \in 1..(Len(hay) - Len(needle) + 1) :
        SubSeq(hay, i, i + Len(needle) - 1) = needle

\* hay.replace(sub, ""), left to right, non-overlapping
RECURSIVE Remove(_, _)
Remove(hay, sub) ==
    IF hay = <<>> THEN <<>>
    ELSE IF Len(hay) >= Len(sub) /\ SubSeq(hay, 1, Len(sub)) = sub
         THEN Remove(SubSeq(hay, Len(sub) + 1, Len(hay)), sub)
         ELSE <<Head(hay)>> \o Remove(Tail(hay), sub)

RECURSIVE Strip(_)
Strip(s) ==
    IF s = <<>> THEN <<>>
    ELSE IF Head(s) \in Whitespace THEN Strip(Tail(s))
    ELSE IF s[Len(s)] \in Whitespace THEN Strip(SubSeq(s, 1, Len(s) - 1))
    ELSE s

RECURSIVE DecimalValue(_)
DecimalValue(ds) ==
    IF ds = <<>> THEN 0
    ELSE 10 * DecimalValue(SubSeq(ds, 1, Len(ds) - 1)) + DigitVal(ds[Len(ds)])

\* int(x) for the builtin: ValueError / TypeError become Raise.
PyInt(x) ==
    CASE x.t = "int" -> x
      [] x.t = "str" ->
            LET s == Strip(x.v)
            IN  IF s # <<>> /\ \A i \in 1..Len(s) : IsDigit(s[i])
                THEN I(DecimalValue(s)) ELSE Raise
      [] OTHER -> Raise

\* str.lower() on the letters that occur in the modelled inputs
Upper == <<"L", "E", "A", "S", "I", "N", "G">>
LowerOf == <<"l", "e", "a", "s", "i", "n", "g">>
LowerChar(c) ==
    IF \E i \in 1..Len(Upper) : Upper[i] = c
    THEN LowerOf[CHOOSE i \in 1..Len(Upper) : Upper[i] = c] ELSE c
Lower(s) == [i \in 1..Len(s) |-> LowerChar(s[i])]

\* Text constants of the program (one token per opaque literal).
Totalpris_kr == <<" ", "k", "r">>
Unit_km == <<" ", "k", "m">>
Leasing == <<"l", "e", "a", "s", "i", "n", "g">>
Touring == <<"T", "o", "u", "r", "i", "n", "g">>
CorollaTouring == <<"C", "o", "r", "o", "l", "l", "a", " ">> \o Touring
Maanedspris == <<"Månedspris">>
MonthlyPayment == <<"MONTHLY_PAYMENT">>
ModelParam == <<"m", "o", "d", "e", "l", "=">>
legacy_link == <<"https://www.finn.no/car/used/ad.html?finnkode=">>
mobility_link == <<"https://www.finn.no/mobility/item/">>

\* ------------------------------------------------- legacy extractors
\* A soup is the parsed markup, reduced to the landmarks the extractors
\* look for:
\*   rows      dict: label div text -> text of its u-strong sibling div
\*   h1p       text of the <p> following the first <h1>, or None
\*   totalpris text of the u-t3 span following the "Totalpris" span, or None
\*   horseshoe content of <script id="horseshoe-config">: None, or encoded JSON
\*   anchors   the <a id="carSearchLink"> elements: [text, href]
\*   tablist   the safety <ul>: None, or the list of its li p.u-strong texts
\*   text      soup.get_text()
\*   props     the data-props attribute: None, or its raw value

get_top_row_item(item, soup) ==
    LET content_div == PyIndex(soup.rows, item)
        cleaned == IF content_div.t = "str"
                   THEN PyInt(S(Remove(Remove(content_div.v, <<NBSP>>), Unit_km)))
                   ELSE Raise
    IN  IF cleaned.t = "raise" THEN None ELSE cleaned

get_model_year(soup) == get_top_row_item("Modellår", soup)
get_model_km(soup) == get_top_row_item("Kilometer", soup)

get_tldr(soup) == soup.h1p

\* json.loads of a script/attribute text: a value, or Raise when the text
\* is not JSON.
JsonLoads(text) == IF text.t = "json" THEN text.v ELSE Raise

get_price_label(soup) ==
    IF soup.totalpris.t = "str"
    THEN PyInt(S(Remove(Remove(Remove(soup.totalpris.v, <<NBSP>>),
                               Totalpris_kr), <<" ">>)))
    ELSE Raise

get_price_script(soup) ==
    IF soup.horseshoe.t = "none" THEN Raise
    ELSE PyInt(PyIndex(PyIndex(PyIndex(JsonLoads(soup.horseshoe), "xandr"),
                               "feed"), "pris"))

get_price(soup) ==
    LET first == get_price_label(soup)
        second == get_price_script(soup)
    IN  IF first.t # "raise" THEN first
        ELSE IF second.t # "raise" THEN second ELSE None

\* " ".join(text.split(" ")[1:])
AfterFirstSpace(chars) ==
    LET sp == {i \in 1..Len(chars) : chars[i] = " "}
    IN  IF sp = {} THEN <<>>
        ELSE LET k == CHOOSE i \in sp : \A j \in sp : i <= j
             IN  SubSeq(chars, k + 1, Len(chars))

\* <<make_text, model_text>> (the model identifier is not used by the batch)
get_brand_type_id(soup) ==
    IF /\ Len(soup.anchors) >= 2
       /\ soup.anchors[2].href.t = "str"
       /\ Contains(soup.anchors[2].href.v, ModelParam)
    THEN <<S(Strip(soup.anchors[1].text)),
           S(AfterFirstSpace(Strip(soup.anchors[2].text)))>>
    ELSE <<None, None>>

get_safty_elements(soup) == soup.tablist

get_leasing(soup) == B(Contains(soup.text, Maanedspris))

\* ---------------------------------------------------- payload decoder
\* The raw attribute value is a str; a well-formed one is the layered
\* encoding b64(utf8(quoted(json(tree)))), each layer of which can instead be
\* garbage that its decoder rejects.  Percent-decoding rejects nothing: a
\* text without escapes is returned as it is.
b64decode(raw) == IF raw.t = "b64" THEN raw.v ELSE Raise
decode_utf8(bytes) == IF bytes.t = "raise" THEN Raise
                      ELSE IF bytes.t = "utf8" THEN bytes.v ELSE Raise
unquote(text) == IF text.t = "quoted" THEN text.v ELSE text

\* Variant: the decoder without its try/except.
decode_props_payload_NoCatch(soup) ==
    IF soup.props.t = "none" THEN None
    ELSE IF soup.props.t = "str" /\ soup.props.v = <<>> THEN None
    ELSE LET json_str == unquote(decode_utf8(b64decode(soup.props)))
         IN  JsonLoads(json_str)

decode_props_payload(soup) ==
    IF soup.props.t = "none" THEN None
    ELSE IF soup.props.t = "str" /\ soup.props.v = <<>> THEN None
    ELSE LET json_str == unquote(decode_utf8(b64decode(soup.props)))
             tree == JsonLoads(json_str)
         IN  IF tree.t = "raise" THEN None ELSE tree

\* ------------------------------------------------ vocabulary normalizer
\* Variant: an entry whose label is the identifier of another entry.
SAFETY_LABELS_Chained ==
    << <<"serviceTab", "warrantyTab">>,
       <<"membershipTab", "Medlem">>,
       <<"usedCarWarrantyTab", "Bruktbilgaranti">>,
       <<"exchangeRightTab", "Bytterett">>,
       <<"programCarTab", "Programbil">>,
       <<"warrantyTab", "Garanti">>,
       <<"conditionReportTab", "Tilstand">> >>

SAFETY_LABELS ==
    << <<"serviceTab", "Service">>,
       <<"membershipTab", "Medlem">>,
       <<"usedCarWarrantyTab", "Bruktbilgaranti">>,
       <<"exchangeRightTab", "Bytterett">>,
       <<"programCarTab", "Programbil">>,
       <<"warrantyTab", "Garanti">>,
       <<"conditionReportTab", "Tilstand">> >>

\* SAFETY_LABELS.get(element, element); an unhashable element is a TypeError
SafetyLabel(element) ==
    IF element.t \in {"list", "dict"} THEN Raise
    ELSE IF element.t = "str" /\ Len(element.v) = 1
            /\ \E i \in 1..Len(SAFETY_LABELS) : SAFETY_LABELS[i][1] = element.v[1]
    THEN S(<<SAFETY_LABELS[CHOOSE i \in 1..Len(SAFETY_LABELS) :
                              SAFETY_LABELS[i][1] = element.v[1]][2]>>)
    ELSE element

\* The elements a for-loop over x visits; iterating anything else is a
\* TypeError.
Iterable(x) == x.t \in {"list", "str", "dict"}
Iterate(x) ==
    CASE x.t = "list" -> x.v
      [] x.t = "str"  -> [i \in 1..Len(x.v) |-> S(<<x.v[i]>>)]
      [] x.t = "dict" -> [i \in 1..Len(x.v) |-> S(<<x.v[i][1]>>)]
      [] OTHER        -> <<>>

normalize_safety_elements(raw_elements) ==
    IF raw_elements.t = "raise" THEN Raise
    ELSE IF ~Truthy(raw_elements) THEN None
    ELSE LET items == Iterate(raw_elements)
         IN  IF ~Iterable(raw_elements) THEN Raise
             ELSE LET mapped == [i \in 1..Len(items) |-> SafetyLabel(items[i])]
                  IN  IF \E i \in 1..Len(mapped) : mapped[i].t = "raise" THEN Raise
                      ELSE L(mapped)

\* ------------------------------------------------ payload field resolvers
parse_price_from_payload(ad_payload) ==
    IF ad_payload.t = "raise" THEN Raise
    ELSE IF ~Truthy(ad_payload) THEN None
    ELSE LET price == PyOr(PyGet(ad_payload, "price"), EmptyDict)
         IN  PyOr(PyGet(price, "total"), PyGet(price, "main"))

\* <<brand, model>>, or Raise
parse_brand_model(ad_payload) ==
    IF ad_payload.t = "raise" THEN Raise
    ELSE IF ~Truthy(ad_payload) THEN [t |-> "tuple", v |-> <<None, None>>]
    ELSE LET model_make == PyOr(PyGet(ad_payload, "model_and_make"), EmptyDict)
             brand == PyGet(PyOr(PyGet(model_make, "parent"), EmptyDict), "value")
             model == PyGet(model_make, "value")
         IN  IF brand.t = "raise" \/ model.t = "raise" THEN Raise
             ELSE [t |-> "tuple", v |-> <<brand, model>>]

\* any(item.get("type") == "MONTHLY_PAYMENT" for item in items)
RECURSIVE AnyMonthly(_)
AnyMonthly(items) ==
    IF items = <<>> THEN B(FALSE)
    ELSE LET type == PyGet(Head(items), "type")
         IN  IF type.t = "raise" THEN Raise
             ELSE IF type.t = "str" /\ type.v = MonthlyPayment THEN B(TRUE)
             ELSE AnyMonthly(Tail(items))

\* Variant: the sales form matched without .lower().
is_leasing_from_payload_CaseSensitive(ad_payload) ==
    IF ad_payload.t = "raise" THEN Raise
    ELSE IF ~Truthy(ad_payload) THEN None
    ELSE LET value == PyGetD(PyOr(PyGet(ad_payload, "sales_form"), EmptyDict),
                             "value", S(<<>>))
             price_spec == PyOr(PyGet(ad_payload, "price_specification"), L(<<>>))
         IN  IF value.t # "str" THEN Raise
             ELSE IF Contains(value.v, Leasing) THEN B(TRUE)
             ELSE IF price_spec.t = "raise" THEN Raise
             ELSE IF ~Iterable(price_spec) THEN Raise
             ELSE AnyMonthly(Iterate(price_spec))

is_leasing_from_payload(ad_payload) ==
    IF ad_payload.t = "raise" THEN Raise
    ELSE IF ~Truthy(ad_payload) THEN None
    ELSE LET value == PyGetD(PyOr(PyGet(ad_payload, "sales_form"), EmptyDict),
                             "value", S(<<>>))
             price_spec == PyOr(PyGet(ad_payload, "price_specification"), L(<<>>))
         IN  IF value.t # "str" THEN Raise
             ELSE IF Contains(Lower(value.v), Leasing) THEN B(TRUE)
             ELSE IF price_spec.t = "raise" THEN Raise
             ELSE IF ~Iterable(price_spec) THEN Raise
             ELSE AnyMonthly(Iterate(price_spec))

\* ------------------------------------------------------- the Ad schema
\* Field validation of the Ad model (lax coercion): Raise is a
\* ValidationError.
IntField(x) ==
    CASE x.t = "none" -> x
      [] x.t = "int"  -> x
      [] x.t = "bool" -> I(IF x.v THEN 1 ELSE 0)
      [] x.t = "str"  -> PyInt(x)
      [] OTHER        -> Raise

StrField(x) == IF x.t \in {"none", "str"} THEN x ELSE Raise

BoolField(x) == IF x.t \in {"none", "bool"} THEN x ELSE Raise

ListStrField(x) ==
    CASE x.t = "none" -> x
      [] x.t = "list" -> IF \A k \in 1..Len(x.v) : x.v[k].t = "str" THEN x ELSE Raise
      [] OTHER        -> Raise

\* the keyword arguments in the order they are evaluated
AdFields == <<"model_year", "model_km", "price", "tldr", "brand", "model",
              "id", "link", "safety_elements", "is_leasing">>

Validated(args) ==
    [model_year      |-> IntField(args.model_year),
     model_km        |-> IntField(args.model_km),
     price           |-> IntField(args.price),
     tldr            |-> StrField(args.tldr),
     brand           |-> StrField(args.brand),
     model           |-> StrField(args.model),
     id              |-> IntField(args.id),
     link            |-> StrField(args.link),
     safety_elements |-> ListStrField(args.safety_elements),
     is_leasing      |-> BoolField(args.is_leasing)]

\* Ad(**args) succeeds: no argument expression raised and every field validates.
AdOk(args) ==
    \A k \in 1..Len(AdFields) :
        args[AdFields[k]].t # "raise" /\ Validated(args)[AdFields[k]].t # "raise"

\* The exception the except clause prints: the first argument expression that
\* raised (named by its field), else the schema's ValidationError.
ErrorOf(args) ==
    LET raised == {k \in 1..Len(AdFields) : args[AdFields[k]].t = "raise"}
    IN  IF raised = {} THEN "ValidationError"
        ELSE AdFields[CHOOSE k \in raised : \A j \in raised : k <= j]

\* --------------------------------------------- one iteration of the loop
\* file = [stem, soup]: the file's name without suffix and its parsed text.
Payload(file) == decode_props_payload(file.soup)

PayloadAd(payload) ==
    PyGetD(PyGetD(PyOr(payload, EmptyDict), "adData", EmptyDict), "ad", EmptyDict)

PayloadLink(payload, payload_ad, stem) ==
    PyOr(PyOr(PyGet(PyOr(payload, EmptyDict), "canonicalUrl"),
              PyGet(payload_ad, "canonical_url")),
         S(mobility_link \o stem))

Link(payload, payload_link, stem) ==
    IF Truthy(payload) THEN payload_link ELSE S(legacy_link \o stem)

\* The statements before the try block (lines 195-202) raise.
Uncaught(file) ==
    LET payload == Payload(file)
        payload_ad == PayloadAd(payload)
    IN  \/ payload_ad.t = "raise"
        \/ PayloadLink(payload, payload_ad, file.stem).t = "raise"
        \/ parse_brand_model(payload_ad).t = "raise"

\* Variant: records numbered by their position in the listing.
FileId_Position(file, position) == I(position)

FileId(file, position) == PyInt(S(file.stem))

\* The keyword arguments of Ad(...), lines 205-217.
AdArgs(file, position) ==
    LET soup == file.soup
        payload == Payload(file)
        payload_ad == PayloadAd(payload)
        payload_link == PayloadLink(payload, payload_ad, file.stem)
        from_payload == parse_brand_model(payload_ad).v
    IN  [model_year |-> PyOr(PyGet(payload_ad, "year"), get_model_year(soup)),
         model_km   |-> PyOr(PyGet(payload_ad, "mileage"), get_model_km(soup)),
         price      |-> PyOr(parse_price_from_payload(payload_ad), get_price(soup)),
         tldr       |-> PyOr(PyGet(payload_ad, "title"), get_tldr(soup)),
         brand      |-> PyOr(from_payload[1], get_brand_type_id(soup)[1]),
         model      |-> PyOr(from_payload[2], get_brand_type_id(soup)[2]),
         id         |-> FileId(file, position),
         link       |-> Link(payload, payload_link, file.stem),
         safety_elements |->
             PyOr(normalize_safety_elements(
                      PyGet(PyOr(payload, EmptyDict), "safetyElements")),
                  get_safty_elements(soup)),
         is_leasing |-> PyOr(is_leasing_from_payload(payload_ad),
                             get_leasing(soup))]

\* ------------------------------------------------------ input documents
\* Legacy markup variants (no data-props attribute).
Str(token) == S(<<token>>)

LegBare ==
    [rows |-> EmptyDict, h1p |-> None, totalpris |-> None, horseshoe |-> None,
     anchors |-> <<>>, tablist |-> None, text |-> <<>>, props |-> None]

\* every landmark present and well-formed
LegRich ==
    [rows |-> D(<< <<"Modellår", S(<<"2", "0", "1", "9">>)>>,
                   <<"Kilometer", S(<<"4", "5", NBSP, "0", "0", "0", " ", "k", "m">>)>> >>),
     h1p |-> S(<<"Y", "a", "r", "i", "s">>),
     totalpris |-> S(<<"3", "0", NBSP, "0", "0", "0", " ", "k", "r">>),
     horseshoe |-> [t |-> "json", v |->
         D(<< <<"xandr", D(<< <<"feed", D(<< <<"pris", I(20)>> >>)>> >>)>> >>)],
     anchors |-> << [text |-> <<"Toyota">>, href |-> S(<<"?">> \o ModelParam \o <<"1">>)],
                    [text |-> <<"Toyota", " ", "Yaris", " ", "GR">>,
                     href |-> S(<<"?">> \o ModelParam \o <<"1">>)] >>,
     tablist |-> L(<<Str("Service"), Str("Garanti")>>),
     text |-> <<"Totalpris", "Toyota">>,
     props |-> None]

\* landmarks present but unusable, "Touring" summary, leasing text
LegOdd ==
    [rows |-> D(<< <<"Modellår", S(<<"n", "y">>)>> >>),
     h1p |-> S(<<"X", " ">> \o Touring \o <<" ", "S">>),
     totalpris |-> S(<<"p", "r", "i", "s">>),
     horseshoe |-> [t |-> "json", v |->
         D(<< <<"xandr", D(<< <<"feed", D(<< <<"pris", Str("7")>> >>)>> >>)>> >>)],
     anchors |-> << [text |-> <<"Toyota">>, href |-> S(<<"?">>)],
                    [text |-> <<"Toyota", " ", "Yaris">>, href |-> S(<<"?">>)] >>,
     tablist |-> L(<<>>),
     text |-> <<"Pris", "Månedspris">>,
     props |-> None]

\* a price label of zero beside a script price; lower-case "touring"
LegZero ==
    [LegBare EXCEPT !.totalpris = S(<<"0", " ", "k", "r">>),
                    !.horseshoe = LegRich.horseshoe,
                    !.h1p = S(<<"t", "o", "u", "r", "i", "n", "g">>)]

\* no price label; the script is not JSON / lacks the field
LegBadScript == [LegBare EXCEPT !.horseshoe = Str("{")]
LegNoPris ==
    [LegBare EXCEPT !.horseshoe = [t |-> "json", v |-> D(<< <<"xandr", EmptyDict>> >>)],
                    !.anchors = <<LegRich.anchors[1]>>]

Legacies == {LegBare, LegRich, LegOdd, LegZero, LegBadScript, LegNoPris}

\* Raw data-props values.
Encode(tree) ==
    [t |-> "b64", v |-> [t |-> "utf8", v |->
        [t |-> "quoted", v |-> [t |-> "json", v |-> tree]]]]

\* the same without percent-escapes
EncodePlain(tree) ==
    [t |-> "b64", v |-> [t |-> "utf8", v |-> [t |-> "json", v |-> tree]]]

UndecodableProps ==
    { S(<<>>),                                          \* empty attribute
      Str("%%%"),                                       \* not base64
      [t |-> "b64", v |-> Str("\\xff")],               \* not UTF-8
      [t |-> "b64", v |-> [t |-> "utf8", v |->
          [t |-> "quoted", v |-> Str("{")]]] }            \* not JSON

AdPayload(ad_pairs) == D(<< <<"adData", D(<< <<"ad", D(ad_pairs)>> >>)>> >>)

\* the minimal payload of the interface description
TreeMinimal ==
    D(<< <<"adData", D(<< <<"ad", D(<< <<"year", I(2020)>>,
                                       <<"mileage", I(50000)>>,
                                       <<"price", D(<< <<"total", I(250000)>> >>)>> >>)>> >>)>>,
         <<"canonicalUrl", Str("https://x/1")>> >>)

\* every field present and well-typed
TreeFull ==
    D(<< <<"adData", D(<< <<"ad", D(<<
             <<"year", I(2021)>>,
             <<"mileage", I(100)>>,
             <<"title", S(<<"C", " ">> \o Touring)>>,
             <<"model_and_make", D(<< <<"parent", D(<< <<"value", Str("Toyota")>> >>)>>,
                                      <<"value", Str("Corolla")>> >>)>>,
             <<"price", D(<< <<"total", I(9)>>, <<"main", I(8)>> >>)>>,
             <<"sales_form", D(<< <<"value", S(<<"L", "e", "a", "s", "i", "n", "g">>)>> >>)>>,
             <<"price_specification", L(<< D(<< <<"type", Str("TOTAL")>> >>),
                                           D(<< <<"type", S(MonthlyPayment)>> >>) >>)>>,
             <<"canonical_url", Str("https://x/ad")>> >>)>> >>)>>,
         <<"safetyElements", L(<<Str("serviceTab"), Str("newTab"), Str("warrantyTab")>>)>> >>)

\* every field present but falsy
TreeFalsy ==
    D(<< <<"adData", D(<< <<"ad", D(<<
             <<"year", I(0)>>,
             <<"mileage", I(0)>>,
             <<"title", S(<<>>)>>,
             <<"model_and_make", D(<< <<"parent", D(<< <<"value", S(<<>>)>> >>)>>,
                                      <<"value", S(<<>>)>> >>)>>,
             <<"price", D(<< <<"total", I(0)>>, <<"main", I(0)>> >>)>>,
             <<"sales_form", D(<< <<"value", Str("Bruktbil")>> >>)>>,
             <<"price_specification", L(<<>>)>>,
             <<"canonical_url", S(<<>>)>> >>)>> >>)>>,
         <<"canonicalUrl", S(<<>>)>>,
         <<"safetyElements", L(<<>>)>> >>)

Trees ==
    { TreeMinimal, TreeFull, TreeFalsy,
      \* shapes of the top of the tree
      None, EmptyDict, L(<<I(1)>>),
      D(<< <<"adData", None>> >>),
      D(<< <<"adData", EmptyDict>> >>),
      D(<< <<"adData", D(<< <<"ad", None>> >>)>>, <<"canonicalUrl", Str("https://x/1")>> >>),
      D(<< <<"adData", D(<< <<"ad", Str("ad")>> >>)>>, <<"canonicalUrl", Str("https://x/1")>> >>),
      D(<< <<"canonicalUrl", I(5)>> >>),
      D(<< <<"safetyElements", L(<<Str("programCarTab"), I(3)>>)>> >>),
      D(<< <<"safetyElements", I(3)>> >>),
      D(<< <<"adData", D(<< <<"ad", D(<< <<"safetyElements",
                L(<<Str("serviceTab")>>)>> >>)>> >>)>> >>),
      \* links
      AdPayload(<< <<"canonical_url", Str("https://x/ad")>> >>),
      \* prices
      AdPayload(<< <<"price", D(<< <<"total", I(0)>>, <<"main", I(8)>> >>)>> >>),
      AdPayload(<< <<"price", D(<< <<"main", I(8)>> >>)>> >>),
      AdPayload(<< <<"price", D(<< <<"total", Str("9")>> >>)>> >>),
      AdPayload(<< <<"price", D(<< <<"total", Str("N/A")>> >>)>> >>),
      AdPayload(<< <<"price", Str("N/A")>> >>),
      AdPayload(<< <<"price", None>>, <<"year", I(2020)>> >>),
      \* brand and model
      AdPayload(<< <<"model_and_make", D(<< <<"value", Str("Corolla")>> >>)>>,
                   <<"title", S(Touring)>> >>),
      AdPayload(<< <<"model_and_make", D(<< <<"parent", Str("Toyota")>> >>)>> >>),
      \* leasing
      AdPayload(<< <<"sales_form", D(<< <<"value", S(<<"L", "E", "A", "S", "I", "N", "G">>)>> >>)>> >>),
      AdPayload(<< <<"sales_form", EmptyDict>>,
                   <<"price_specification", L(<< D(<< <<"type", S(MonthlyPayment)>> >>) >>)>> >>),
      AdPayload(<< <<"sales_form", D(<< <<"value", None>> >>)>> >>),
      AdPayload(<< <<"price_specification", L(<< I(1) >>)>> >>) }

Soups ==
    Legacies
    \cup {[l EXCEPT !.props = p] : l \in {LegBare, LegRich}, p \in UndecodableProps}
    \cup {[LegRich EXCEPT !.props = Encode(tree)] : tree \in Trees}
    \cup {[l EXCEPT !.props = Encode(tree)] :
             l \in {LegBare, LegOdd}, tree \in {TreeMinimal, TreeFull, TreeFalsy, EmptyDict}}
    \cup {[LegBare EXCEPT !.props = Encode(AdPayload(<< <<"price", Str("N/A")>> >>))],
          [LegOdd EXCEPT !.props = EncodePlain(TreeMinimal)]}

\* str(int): the file names are written by the crawler as f"{ad_code}.txt".
RECURSIVE IntToStr(_)
IntToStr(n) ==
    IF n < 10 THEN <<Digits[n + 1]>>
    ELSE IntToStr(n \div 10) \o <<Digits[(n % 10) + 1]>>

\* the ad code of the k-th file of the folder
AdCode(k) == 5 + 7 * k

\* ------------------------------------------------------------ the batch
VARIABLES files_list, cursor, ad_lst, log, pc, ads_df, index, parquet

\* A caller of normalize_safety_elements on its own: its argument and the
\* results of the successive calls, each made on the previous result.
VARIABLES raw_elements, normalized

batchVars == <<files_list, cursor, ad_lst, log, pc, ads_df, index, parquet>>
callVars == <<raw_elements, normalized>>
vars == <<batchVars, callVars>>

\* The documents the k-th file ranges over: the first two files take every
\* document, further files a cross-section of the outcomes.
SoupsAt(k) ==
    IF k <= 2 THEN Soups
    ELSE {LegBare, LegOdd, [LegRich EXCEPT !.props = Encode(TreeFull)],
          [LegRich EXCEPT !.props = Encode(AdPayload(<< <<"price", Str("N/A")>> >>))],
          [LegRich EXCEPT !.props = Encode(D(<< <<"adData", None>> >>))]}

Init ==
    /\ \E n \in 0..MaxFiles : \E content \in [1..n -> Soups] :
          /\ \A k \in 1..n : content[k] \in SoupsAt(k)
          /\ files_list = [k \in 1..n |->
                              [stem |-> IntToStr(AdCode(k)), soup |-> content[k]]]
    /\ cursor = 1
    /\ ad_lst = <<>>
    /\ log = <<>>
    /\ pc = "assemble"
    /\ ads_df = <<>>
    /\ index = 1
    /\ parquet = [written |-> FALSE, rows |-> <<>>]
    /\ raw_elements = None
    /\ normalized = <<>>

\* lines 192-220: the record validates and is appended
EmitAd ==
    /\ pc = "assemble" /\ cursor <= Len(files_list)
    /\ LET file == files_list[cursor]
       IN  /\ ~Uncaught(file)
           /\ AdOk(AdArgs(file, cursor))
           /\ ad_lst' = Append(ad_lst, Validated(AdArgs(file, cursor)))
    /\ cursor' = cursor + 1
    /\ UNCHANGED <<files_list, log, pc, ads_df, index, parquet>>
    /\ UNCHANGED callVars

\* lines 221-223: the exception is printed with the file, the file skipped
SkipFile ==
    /\ pc = "assemble" /\ cursor <= Len(files_list)
    /\ LET file == files_list[cursor]
       IN  /\ ~Uncaught(file)
           /\ ~AdOk(AdArgs(file, cursor))
           /\ log' = Append(log, [error |-> ErrorOf(AdArgs(file, cursor)),
                                   file |-> file.stem])
    /\ cursor' = cursor + 1
    /\ UNCHANGED <<files_list, ad_lst, pc, ads_df, index, parquet>>
    /\ UNCHANGED callVars

\* lines 195-202 raise outside the try block: the script dies
Crash ==
    /\ pc = "assemble" /\ cursor <= Len(files_list)
    /\ Uncaught(files_list[cursor])
    /\ pc' = "crashed"
    /\ UNCHANGED <<files_list, cursor, ad_lst, log, ads_df, index, parquet>>
    /\ UNCHANGED callVars

\* line 225
BuildFrame ==
    /\ pc = "assemble" /\ cursor > Len(files_list)
    /\ ads_df' = ad_lst
    /\ index' = 1
    /\ pc' = "correct"
    /\ UNCHANGED <<files_list, cursor, ad_lst, log, parquet>>
    /\ UNCHANGED callVars

\* Variant: the correction applied only to rows that have a model.
CorrectedRow_WhenModelKnown(row) ==
    IF Truthy(row.tldr) /\ Truthy(row.model) /\ Contains(row.tldr.v, Touring)
    THEN [row EXCEPT !.model = S(CorollaTouring)] ELSE row

\* lines 227-229
CorrectedRow(row) ==
    IF Truthy(row.tldr) /\ Contains(row.tldr.v, Touring)
    THEN [row EXCEPT !.model = S(CorollaTouring)] ELSE row

\* lines 226-229, one row of iterrows()
CorrectRow ==
    /\ pc = "correct" /\ index <= Len(ads_df)
    /\ ads_df' = [ads_df EXCEPT ![index] = CorrectedRow(ads_df[index])]
    /\ index' = index + 1
    /\ UNCHANGED <<files_list, cursor, ad_lst, log, pc, parquet>>
    /\ UNCHANGED callVars

\* line 231
Persist ==
    /\ pc = "correct" /\ index > Len(ads_df)
    /\ parquet' = [written |-> TRUE, rows |-> ads_df]
    /\ pc' = "done"
    /\ UNCHANGED <<files_list, cursor, ad_lst, log, ads_df, index>>
    /\ UNCHANGED callVars

Next == EmitAd \/ SkipFile \/ Crash \/ BuildFrame \/ CorrectRow \/ Persist

Spec == Init /\ [][Next]_vars

\* ---------------------------------------- the normalizer called on its own
\* The labels a safety list is made of: the identifiers of the vocabulary
\* table, its display labels, and a label the table does not know.
Labels ==
    {Str(SAFETY_LABELS[i][1]) : i \in 1..Len(SAFETY_LABELS)}
    \cup {Str(SAFETY_LABELS[i][2]) : i \in 1..Len(SAFETY_LABELS)}
    \cup {Str("newTab")}

LabelLists ==
    UNION {[1..n -> Labels] : n \in 0..MaxLabels}

NormInit ==
    /\ files_list = <<>>
    /\ cursor = 1
    /\ ad_lst = <<>>
    /\ log = <<>>
    /\ pc = "normalize"
    /\ ads_df = <<>>
    /\ index = 1
    /\ parquet = [written |-> FALSE, rows |-> <<>>]
    /\ raw_elements \in {None} \cup {L(list) : list \in LabelLists}
    /\ normalized = <<>>

\* lines 114-117, called on the argument and then on its own result
Normalize ==
    /\ pc = "normalize"
    /\ Len(normalized) < 2
    /\ normalized' = Append(normalized,
            normalize_safety_elements(IF normalized = <<>> THEN raw_elements
                                      ELSE normalized[Len(normalized)]))
    /\ UNCHANGED <<batchVars, raw_elements>>

NormNext == Normalize

NormSpec == NormInit /\ [][NormNext]_vars

\* ============================================================ properties
\* Observing the run: file k was handled when the loop moved past it, it was
\* skipped when the except clause printed it, and otherwise its record is the
\* next one appended to ad_lst.
Handled(k) == k \in 1..Len(files_list) /\ k < cursor
Skipped(k) == \E j \in 1..Len(log) : log[j].file = files_list[k].stem
Emitted(k) == Handled(k) /\ ~Skipped(k)
RecOf(k) == ad_lst[Cardinality({j \in 1..k : ~Skipped(j)})]

\* Navigation of a decoded tree as the interface describes it: the value at
\* the end of the key path, None when a key is absent or a level is no dict.
RECURSIVE Path(_, _)
Path(tree, keys) ==
    IF keys = <<>> THEN tree
    ELSE IF tree.t = "dict" /\ \E i \in 1..Len(tree.v) : tree.v[i][1] = Head(keys)
         THEN Path(tree.v[CHOOSE i \in 1..Len(tree.v) : tree.v[i][1] = Head(keys)][2],
                   Tail(keys))
         ELSE None

\* "empty/zero/missing"
IsAbsent(x) ==
    \/ x.t = "none"
    \/ x.t = "int" /\ x.v = 0
    \/ x.t = "bool" /\ x.v = FALSE
    \/ x.t \in {"str", "list", "dict"} /\ Len(x.v) = 0

ReconciledFields == {"model_year", "model_km", "price", "tldr", "brand", "model",
                     "safety_elements", "is_leasing"}

\* The value the payload resolvers derive for a field of the file.
PayloadValue(file, field) ==
    LET payload == Payload(file)
        payload_ad == PayloadAd(payload)
    IN  CASE field = "model_year" -> PyGet(payload_ad, "year")
          [] field = "model_km"   -> PyGet(payload_ad, "mileage")
          [] field = "price"      -> parse_price_from_payload(payload_ad)
          [] field = "tldr"       -> PyGet(payload_ad, "title")
          [] field = "brand"      -> parse_brand_model(payload_ad).v[1]
          [] field = "model"      -> parse_brand_model(payload_ad).v[2]
          [] field = "safety_elements" ->
                normalize_safety_elements(PyGet(PyOr(payload, EmptyDict), "safetyElements"))
          [] field = "is_leasing" -> is_leasing_from_payload(payload_ad)

\* The value the legacy extractor yields for a field of the file.
LegacyValue(file, field) ==
    CASE field = "model_year" -> get_model_year(file.soup)
      [] field = "model_km"   -> get_model_km(file.soup)
      [] field = "price"      -> get_price(file.soup)
      [] field = "tldr"       -> get_tldr(file.soup)
      [] field = "brand"      -> get_brand_type_id(file.soup)[1]
      [] field = "model"      -> get_brand_type_id(file.soup)[2]
      [] field = "safety_elements" -> get_safty_elements(file.soup)
      [] field = "is_leasing" -> get_leasing(file.soup)

\* A value as the record schema stores it (a numeric str in an int field is
\* stored as that number).
Stored(field, x) ==
    IF field \in {"model_year", "model_km", "price", "id"} THEN IntField(x) ELSE x

\* C1: every record appended by the assembly loop holds, in each reconciled
\* field, the payload-derived value when that value is not empty/zero/missing
\* (None, 0, "", False, []), and the legacy extractor's value otherwise.
C1_FieldReconciliation ==
    \A k \in 1..Len(files_list) : Emitted(k) =>
        \A field \in ReconciledFields :
            LET pv == PayloadValue(files_list[k], field)
                lv == LegacyValue(files_list[k], field)
            IN  RecOf(k)[field] = Stored(field, IF IsAbsent(pv) THEN lv ELSE pv)

\* A record was built from a payload whose year is 0, title "" and safety
\* list [], and carries the legacy year, summary and safety list instead.
C1_Witness ==
    \E k \in 1..Len(files_list) :
        /\ Emitted(k)
        /\ PayloadValue(files_list[k], "model_year") = I(0)
        /\ PayloadValue(files_list[k], "tldr") = S(<<>>)
        /\ RecOf(k).model_year = I(2019)
        /\ RecOf(k).tldr = LegRich.h1p
        /\ RecOf(k).price = I(30000)
        /\ RecOf(k).is_leasing = B(FALSE)

\* The data-props attribute is absent, empty, or not the encoding of a JSON
\* text (malformed base64, invalid UTF-8 or invalid JSON).
Undecodable(soup) ==
    IF soup.props.t # "b64" THEN TRUE
    ELSE IF soup.props.v.t # "utf8" THEN TRUE
    ELSE IF soup.props.v.v.t = "quoted" THEN soup.props.v.v.v.t # "json"
    ELSE soup.props.v.v.t # "json"

\* C6: a document whose payload attribute is absent, empty or undecodable
\* yields no payload, is neither skipped nor fatal, and its record carries in
\* every field the legacy extractor's value and the legacy link with its id.
C6_UndecodableIsPureLegacy ==
    \A k \in 1..Len(files_list) :
        LET file == files_list[k]
        IN  Undecodable(file.soup) =>
              /\ decode_props_payload(file.soup) = None
              /\ ~(pc = "crashed" /\ cursor = k)
              /\ Handled(k) =>
                    /\ ~Skipped(k)
                    /\ \A field \in ReconciledFields :
                          RecOf(k)[field] = LegacyValue(file, field)
                    /\ RecOf(k).link = S(legacy_link \o IntToStr(AdCode(k)))

\* A record was built from a page whose attribute is not base64 and another
\* from a page whose attribute holds invalid JSON; both carry the legacy price.
C6_Witness ==
    /\ \E k \in 1..Len(files_list) :
          /\ Handled(k)
          /\ files_list[k].soup.props.t = "str" /\ files_list[k].soup.props.v # <<>>
          /\ RecOf(k).price = I(30000)
    /\ \E k \in 1..Len(files_list) :
          /\ Handled(k)
          /\ files_list[k].soup.props.t = "b64"
          /\ Undecodable(files_list[k].soup)
          /\ RecOf(k).brand = Str("Toyota")

\* C7: every record carries the identifier of the document it was built from,
\* no two records share an id, and when no document failed the persisted ids
\* are exactly the identifiers of the input documents.
C7_IdsPreserved ==
    /\ \A k \in 1..Len(files_list) : Emitted(k) => RecOf(k).id = I(AdCode(k))
    /\ \A i, j \in 1..Len(ad_lst) : i # j => ad_lst[i].id # ad_lst[j].id
    /\ parquet.written =>
          /\ Len(parquet.rows) = Len(ad_lst)
          /\ \A j \in 1..Len(ad_lst) : parquet.rows[j].id = ad_lst[j].id
          /\ log = <<>> =>
                {parquet.rows[j].id.v : j \in 1..Len(parquet.rows)}
                    = {AdCode(k) : k \in 1..Len(files_list)}

\* Two documents were persisted, none skipped.
C7_Witness ==
       /\ parquet.written /\ log = <<>>
       /\ Len(parquet.rows) = 2
       /\ parquet.rows[2].id = I(19)

\* Leasing evidence in the adData.ad object of a payload.
SalesFormLeasing(ad) ==
    LET value == Path(ad, <<"sales_form", "value">>)
    IN  value.t = "str" /\ Contains(Lower(value.v), Leasing)

MonthlySpecified(ad) ==
    LET spec == Path(ad, <<"price_specification">>)
    IN  /\ spec.t = "list"
        /\ \E i \in 1..Len(spec.v) :
              LET type == Path(spec.v[i], <<"type">>)
              IN  type.t = "str" /\ type.v = MonthlyPayment

\* C9: is_leasing of every record is a boolean, never null: true exactly when the
\* payload's sales_form value contains "leasing" (case-insensitively), a
\* price_specification entry has type MONTHLY_PAYMENT, or the visible text
\* contains "Månedspris".
C9_LeasingIsBoolean ==
    /\ \A k \in 1..Len(files_list) : Emitted(k) =>
          LET file == files_list[k]
              ad == Path(Payload(file), <<"adData", "ad">>)
          IN  /\ RecOf(k).is_leasing.t = "bool"
              /\ RecOf(k).is_leasing.v =
                    (\/ SalesFormLeasing(ad)
                     \/ MonthlySpecified(ad)
                     \/ Contains(file.soup.text, Maanedspris))
    /\ \A j \in 1..Len(parquet.rows) : parquet.rows[j].is_leasing.t = "bool"

\* One record is leasing on an upper-case sales form alone, another is not
\* leasing and has no payload at all.
C9_Witness ==
    /\ \E k \in 1..Len(files_list) :
          /\ Emitted(k)
          /\ Path(Payload(files_list[k]), <<"adData", "ad", "sales_form", "value">>)
                = S(<<"L", "E", "A", "S", "I", "N", "G">>)
          /\ ~Contains(files_list[k].soup.text, Maanedspris)
          /\ RecOf(k).is_leasing = B(TRUE)
    /\ \E k \in 1..Len(files_list) :
          /\ Emitted(k)
          /\ files_list[k].soup.props.t = "none"
          /\ RecOf(k).is_leasing = B(FALSE)

\* C10: in the persisted output every record whose summary contains "Touring"
\* has model "Corolla Touring", whatever model was resolved for it.
C10_TouringCorrection ==
    parquet.written =>
        \A j \in 1..Len(parquet.rows) :
            (/\ parquet.rows[j].tldr.t = "str"
             /\ Contains(parquet.rows[j].tldr.v, Touring))
            => parquet.rows[j].model = S(CorollaTouring)

\* Persisted: a "Touring" record whose model was unresolved, and one whose
\* payload had resolved it to "Corolla"; both now read "Corolla Touring".
C10_Witness ==
    /\ parquet.written
    /\ \E j \in 1..Len(parquet.rows) :
          /\ Contains(parquet.rows[j].tldr.v, Touring)
          /\ ad_lst[j].model = None
          /\ parquet.rows[j].model = S(CorollaTouring)
    /\ \E j \in 1..Len(parquet.rows) :
          /\ Contains(parquet.rows[j].tldr.v, Touring)
          /\ ad_lst[j].model = Str("Corolla")
          /\ parquet.rows[j].model = S(CorollaTouring)

\* C2: no single document aborts the batch: whatever a document holds, the
\* loop either appends its record or skips it, and goes on to the persist
\* step.
C2_NoDocumentAbortsBatch == pc \in {"assemble", "correct", "done"}

\* C3: for a decoded payload, a failure inside a field resolver or a legacy
\* extractor never leaves it: the only exception the assembly loop ever
\* reports for a document is the record schema's ValidationError.
C3_ResolversContainFailures ==
    \A j \in 1..Len(log) : log[j].error = "ValidationError"

\* The link priority of the link derivation rule.
LinkByPriority(file, id) ==
    LET tree == Payload(file)
        top == Path(tree, <<"canonicalUrl">>)
        nested == Path(tree, <<"adData", "ad", "canonical_url">>)
    IN  IF ~IsAbsent(top) THEN top
        ELSE IF ~IsAbsent(nested) THEN nested
        ELSE IF tree.t # "none" THEN S(mobility_link \o IntToStr(id))
        ELSE S(legacy_link \o IntToStr(id))

\* C4: the link of every record is the payload's canonicalUrl if non-empty,
\* else the payload's adData.ad.canonical_url if non-empty, else the mobility
\* template plus the id if a payload was decoded at all (an empty object
\* included), else the legacy template plus the id.
C4_LinkPriority ==
    \A k \in 1..Len(files_list) : Emitted(k) =>
        RecOf(k).link = LinkByPriority(files_list[k], AdCode(k))

\* The ordered price chain: payload total, payload main, label, script.
OrNone(x) == IF x.t = "raise" THEN None ELSE x

PriceByChain(file) ==
    LET ad == Path(Payload(file), <<"adData", "ad">>)
        total == Path(ad, <<"price", "total">>)
        main == Path(ad, <<"price", "main">>)
        label == OrNone(get_price_label(file.soup))
        script == OrNone(get_price_script(file.soup))
    IN  IF ~IsAbsent(total) THEN total
        ELSE IF ~IsAbsent(main) THEN main
        ELSE IF label.t # "none" THEN label ELSE script

\* C5: the price of a record is the first non-empty link of the chain payload
\* price.total, payload price.main, legacy "Totalpris" label, legacy
\* horseshoe-config script; and when no link yields a value the price
\* resolution lets no exception escape and the record's price is null.
C5_PriceChain ==
    \A k \in 1..Len(files_list) : Handled(k) =>
        /\ Emitted(k) => RecOf(k).price = Stored("price", PriceByChain(files_list[k]))
        /\ PriceByChain(files_list[k]) = None =>
              /\ \A j \in 1..Len(log) :
                    log[j].file = files_list[k].stem => log[j].error # "price"
              /\ Emitted(k) => RecOf(k).price = None

\* C8: when the decoded payload carries a non-empty safetyElements list among
\* the adData.ad fields, the record's safety_elements is that list mapped
\* element-wise through the vocabulary table, unmapped identifiers kept.
C8_AdSafetyElementsNormalized ==
    \A k \in 1..Len(files_list) : Emitted(k) =>
        LET raw == Path(Payload(files_list[k]), <<"adData", "ad", "safetyElements">>)
        IN  (raw.t = "list" /\ raw.v # <<>>) =>
                RecOf(k).safety_elements =
                    L([i \in 1..Len(raw.v) |-> SafetyLabel(raw.v[i])])

\* C11: normalize_safety_elements is idempotent: for every list of labels
\* (table identifiers, unknown labels, display labels, the empty list or
\* None), normalizing the normalized list gives the normalized list again.
C11_NormalizeIdempotent ==
    Len(normalized) = 2 => normalized[2] = normalized[1]

\* Both calls were made on a list holding an identifier and a display label,
\* and both returned the two display labels.
C11_Witness ==
    /\ Len(normalized) = 2
    /\ raw_elements = L(<<Str("serviceTab"), Str("Garanti")>>)
    /\ normalized[1] = L(<<Str("Service"), Str("Garanti")>>)
    /\ normalized[2] = L(<<Str("Service"), Str("Garanti")>>)

====
